---- MODULE Spec2Model ----
(***************************************************************************)
(* Model of iron-jump (src/src/main.rs): the per-frame physics, the        *)
(* axis-separated collision resolution and the "move the world" scrolling. *)
(*                                                                         *)
(* Numbers.  The program computes in f32 and the model does the same.  An  *)
(* f32 value v is held as the integer sign(v) * bits(|v|), where bits is   *)
(* the IEEE-754 binary32 bit pattern (biased exponent * 2^23 + fraction):  *)
(* 0 is 0.0, 1065353216 is 1.0, -1077936128 is -3.0.  The order of these   *)
(* integers is the order of the values, so <, >, min, max, abs and unary   *)
(* minus are the integer ones.  F32Add, F32Sub, F32Mul and F32Div round to *)
(* nearest, ties to even, as the hardware does.  Infinities, NaN,          *)
(* subnormal numbers and -0.0 do not arise from the values of the program  *)
(* (magnitudes between 2^-30 and 2^12) and are not represented.            *)
(* Decimal(p, q) is the f32 nearest to p / q, which is what a decimal      *)
(* literal of the source denotes.  Integers of the program (i32) are plain *)
(* integers.                                                               *)
(*                                                                         *)
(* Not modelled: images, drawing, and Player.alpha (an animation phase     *)
(* that is written by update_from_input and read nowhere).                 *)
(***************************************************************************)
EXTENDS Integers, Sequences, FiniteSets, TLC

VARIABLES
    player,              \* Game.player: x, y, move_x, move_y, jumping, rotation, speed_up_counter
    game_objects,        \* Game.game_objects: the platforms, in list order
    input_acceleration,  \* Game.input_acceleration: [x, y]
    background_offset,   \* Game.background_offset: [x, y]
    key_events,          \* number of key events delivered so far (bounds the model)
    jumps,               \* number of jump impulses given so far (bounds the model)
    calls,               \* number of calls made so far of the function a specification exercises
    start_counter,       \* speed_up_counter at the start of a player-level run
    events,              \* log of the key events and frames of a key-level run (SpecKeys)
    rects                \* arguments and result of rect_intersection (SpecRect)

vars == <<player, game_objects, input_acceleration, background_offset,
          key_events, jumps, calls, start_counter, events, rects>>

----------------------------------------------------------------------------
(* f32 arithmetic.                                                         *)

Abs(v) == IF v < 0 THEN -v ELSE v
Max(a, b) == IF a > b THEN a ELSE b
Min(a, b) == IF a < b THEN a ELSE b

\* Sign, biased exponent and 24-bit significand of a non-zero f32.
F32Sign(a) == IF a < 0 THEN -1 ELSE 1
F32Exp(a) == Abs(a) \div 8388608
F32Mant(a) == (Abs(a) % 8388608) + 8388608

\* The f32 of sign s, biased exponent e and significand m, 2^23 <= m < 2^24.
F32Pack(s, e, m) == s * ((e * 8388608) + (m - 8388608))

\* The quotient q of a shift or division, with what was left over (r) kept
\* as a sticky last bit.
Sticky(q, r) == IF r # 0 /\ q % 2 = 0 THEN q + 1 ELSE q

\* m shifted right by d bits, the bits shifted out kept as a sticky last bit.
ShiftRightSticky(m, d) ==
    IF d > 27 THEN 1 ELSE Sticky(m \div (2^d), m % (2^d))

\* A positive significand with three extra low bits (guard, round, sticky)
\* brought into 2^26 <= s < 2^27, the exponent following.
RECURSIVE F32Normalize(_, _)
F32Normalize(s, e) ==
    IF s >= 134217728 THEN F32Normalize(ShiftRightSticky(s, 1), e + 1)
    ELSE IF s < 16384 THEN F32Normalize(s * 4096, e - 12)
    ELSE IF s < 67108864 THEN F32Normalize(s * 2, e - 1)
    ELSE [s |-> s, e |-> e]

\* The 24-bit significand m with the three extra bits r rounded into it:
\* to nearest, ties to even.
RoundUp(m, r) == IF r > 4 \/ (r = 4 /\ m % 2 = 1) THEN m + 1 ELSE m

\* Pack a rounded significand; rounding up to 2^24 carries into the exponent.
PackRounded(sign, e, m) ==
    IF m = 16777216 THEN F32Pack(sign, e + 1, 8388608)
    ELSE F32Pack(sign, e, m)

\* Round the normalized [s, e] to nearest, ties to even, and pack.
F32Round(sign, n) == PackRounded(sign, n.e, RoundUp(n.s \div 8, n.s % 8))

\* big + small for |big| >= |small|, from the sum of the aligned significands.
AddSum(big, sum) ==
    IF sum = 0 THEN 0
    ELSE F32Round(F32Sign(big), F32Normalize(sum, F32Exp(big)))

\* same is 1 when the signs agree and -1 when they differ; aligned is the
\* significand of the smaller operand shifted to the exponent of the bigger.
AddAligned(big, same, aligned) ==
    AddSum(big, (F32Mant(big) * 8) + (same * aligned))

AddOrdered(big, small) ==
    AddAligned(big, F32Sign(big) * F32Sign(small),
               ShiftRightSticky(F32Mant(small) * 8, F32Exp(big) - F32Exp(small)))

F32Add(a, b) ==
    IF a = 0 THEN b
    ELSE IF b = 0 THEN a
    ELSE AddOrdered(IF Abs(a) >= Abs(b) THEN a ELSE b,
                    IF Abs(a) >= Abs(b) THEN b ELSE a)

F32Sub(a, b) == F32Add(a, -b)

\* The 48-bit product hi * 2^24 + lo of two significands, cut to 27 bits
\* with the rest as sticky bit, rounded and packed.
MulProduct(sign, e, hi, lo) ==
    IF hi >= 8388608
    THEN F32Round(sign, [s |-> Sticky((hi * 8) + (lo \div 2097152),
                                      lo % 2097152),
                         e |-> e + 1])
    ELSE F32Round(sign, [s |-> Sticky((((hi * 2) + (lo \div 8388608)) * 8)
                                          + ((lo % 8388608) \div 1048576),
                                      lo % 1048576),
                         e |-> e])

\* The product is formed from 12-bit halves: high * 2^24 + mid * 2^12 + low.
MulLow(sign, e, high, low) ==
    MulProduct(sign, e, high + (low \div 16777216), low % 16777216)

MulMid(sign, e, high, mid, low) ==
    MulLow(sign, e, high + (mid \div 4096), low + ((mid % 4096) * 4096))

MulHalves(sign, e, a1, a0, b1, b0) ==
    MulMid(sign, e, a1 * b1, (a1 * b0) + (a0 * b1), a0 * b0)

F32Mul(a, b) ==
    IF a = 0 \/ b = 0 THEN 0
    ELSE MulHalves(F32Sign(a) * F32Sign(b), F32Exp(a) + F32Exp(b) - 127,
                   F32Mant(a) \div 4096, F32Mant(a) % 4096,
                   F32Mant(b) \div 4096, F32Mant(b) % 4096)

\* Long division: n more quotient bits of r / m, q the bits so far; what
\* is left of r ends as the sticky bit.
RECURSIVE DivideBits(_, _, _, _)
DivideBits(r, m, n, q) ==
    IF n = 0 THEN Sticky(q, r)
    ELSE IF r >= m THEN DivideBits((r - m) * 2, m, n - 1, (q * 2) + 1)
    ELSE DivideBits(r * 2, m, n - 1, q * 2)

\* The quotient of the significands ma / mb, 27 bits of it.
DivideMant(sign, e, ma, mb) ==
    IF ma < mb
    THEN F32Round(sign, [s |-> DivideBits(ma * 2, mb, 27, 0), e |-> e - 1])
    ELSE F32Round(sign, [s |-> DivideBits(ma, mb, 27, 0), e |-> e])

F32Div(a, b) ==
    IF a = 0 THEN 0
    ELSE DivideMant(F32Sign(a) * F32Sign(b), F32Exp(a) - F32Exp(b) + 127,
                    F32Mant(a), F32Mant(b))

\* i32 as f32.
F32FromInt(n) ==
    IF n = 0 THEN 0
    ELSE F32Round(F32Sign(n), F32Normalize(Abs(n), 153))

\* The f32 nearest to p / q.
Decimal(p, q) == F32Div(F32FromInt(p), F32FromInt(q))

----------------------------------------------------------------------------
(* Program constants (f32 unless noted).                                   *)

COLLISION_TOLERANCE == Decimal(3, 1)
RECT_TOLERANCE == Decimal(1, 10)
MAX_SPEED == Decimal(58, 10)
SPEED_POWER_UP == Decimal(15, 10)
UP_SPEED == Decimal(7, 1)
MAX_FALL_SPEED == -Decimal(15, 1)
ACCELERATION == Decimal(11, 10)
\* 1.1 * 0.2, the product rounded to f32
DECELERATION == F32Mul(Decimal(11, 10), Decimal(2, 10))
CHANGE_DIRECTION_SPEED == Decimal(3, 1)
\* i32: 60 FPS * 6 sec, in frames
MAX_SPEEDUP_COUNT == 60 * 6

SCREEN_WIDTH == Decimal(480, 1)
SCREEN_HEIGHT == Decimal(320, 1)
TILE_SIZE == Decimal(32, 1)

\* Other f32 literals of the source: 1.0 and -1.0 (the key handlers), 2.0
\* (halving, lines 154, 229, 230), 0.55 (line 155) and 0.25 (lines 273, 274).
One == Decimal(1, 1)
Two == Decimal(2, 1)
RotationPerUnit == Decimal(55, 100)
Parallax == Decimal(25, 100)

----------------------------------------------------------------------------
(* Geometry: ggez Rect is x, y, w, h with left = x, top = y,               *)
(* right = x + w and bottom = y + h, each sum rounded to f32.              *)

Rect(x, y, w, h) == [x |-> x, y |-> y, w |-> w, h |-> h]
RectZero == Rect(0, 0, 0, 0)
Left(r) == r.x
Right(r) == F32Add(r.x, r.w)
Top(r) == r.y
Bottom(r) == F32Add(r.y, r.h)

\* lines 28-34: the rectangle between the inner edges, from its corner
intersection_from(a, b, x, y) ==
    Rect(x, y, F32Sub(Min(Right(a), Right(b)), x),
               F32Sub(Min(Bottom(a), Bottom(b)), y))

\* lines 28-34
intersection_of(a, b) ==
    intersection_from(a, b, Max(Left(a), Left(b)), Max(Top(a), Top(b)))

\* Mutant of tolerance_checked: <= in place of <.
tolerance_checked_inclusive(intersection) ==
    IF intersection.w <= RECT_TOLERANCE \/ intersection.h <= RECT_TOLERANCE
    THEN RectZero
    ELSE intersection

\* lines 35-39: an intersection thinner than the tolerance counts as none
tolerance_checked(intersection) ==
    IF intersection.w < RECT_TOLERANCE \/ intersection.h < RECT_TOLERANCE
    THEN RectZero
    ELSE intersection

\* Mutant of rect_intersection: an intersection exactly as wide or as
\* high as the tolerance is also reported as empty.
rect_intersection_inclusive(a, b) ==
    tolerance_checked_inclusive(intersection_of(a, b))

rect_intersection(a, b) == tolerance_checked(intersection_of(a, b))

rect_is_empty_with_tolerance(a) ==
    a.w < RECT_TOLERANCE \/ a.h < RECT_TOLERANCE

\* The value of rects while rect_intersection is not being exercised.
NoRects == [a |-> RectZero, b |-> RectZero, out |-> RectZero, done |-> FALSE]

----------------------------------------------------------------------------
(* Player.                                                                 *)

PlayerNew(x, y) ==
    [x |-> x, y |-> y, move_x |-> 0, move_y |-> 0, jumping |-> FALSE,
     rotation |-> 0, speed_up_counter |-> 0]

PlayerRect(p) == Rect(p.x, p.y, TILE_SIZE, TILE_SIZE)

\* Mutant of speed_up_decay: the counter also runs from 0 (>= 0 in place
\* of > 0).
speed_up_decay_from_zero(c) ==
    IF c >= 0
    THEN (IF c + 1 > MAX_SPEEDUP_COUNT THEN 0 ELSE c + 1)
    ELSE c

\* Mutant of speed_up_decay: the reset compares with >= instead of >.
speed_up_decay_early(c) ==
    IF c > 0
    THEN (IF c + 1 >= MAX_SPEEDUP_COUNT THEN 0 ELSE c + 1)
    ELSE c

\* lines 91-96: the boost counter runs while positive and resets past the limit
speed_up_decay(c) ==
    IF c > 0
    THEN (IF c + 1 > MAX_SPEEDUP_COUNT THEN 0 ELSE c + 1)
    ELSE c

\* line 98
current_max_speed(c) ==
    IF c > 0 THEN F32Mul(MAX_SPEED, SPEED_POWER_UP) ELSE MAX_SPEED

\* |input.x| * ACCELERATION * CHANGE_DIRECTION_SPEED, multiplied left to right
change_direction_term(ix) ==
    F32Mul(F32Mul(Abs(ix), ACCELERATION), CHANGE_DIRECTION_SPEED)

\* |input.x| * ACCELERATION
acceleration_term(ix) == F32Mul(Abs(ix), ACCELERATION)

\* lines 106-108 (for -max_speed, 117-119)
limit_above(v, limit) == IF v > limit THEN limit ELSE v
limit_below(v, limit) == IF v < limit THEN limit ELSE v

\* Mutant of accelerate: the result is not clamped to the max speed.
accelerate_no_clamp(move_x, ix, max_speed) ==
    IF ix < 0 THEN
        F32Add(IF move_x < 0
               THEN F32Add(move_x, change_direction_term(ix))
               ELSE move_x, acceleration_term(ix))
    ELSE IF ix > 0 THEN
        F32Sub(IF move_x > 0
               THEN F32Sub(move_x, change_direction_term(ix))
               ELSE move_x, acceleration_term(ix))
    ELSE move_x

\* Mutant of accelerate: the direction-change term is also applied at rest
\* (<= and >= in place of < and >).
accelerate_change_at_rest(move_x, ix, max_speed) ==
    IF ix < 0 THEN
        limit_above(F32Add(IF move_x <= 0
                           THEN F32Add(move_x, change_direction_term(ix))
                           ELSE move_x, acceleration_term(ix)),
                    max_speed)
    ELSE IF ix > 0 THEN
        limit_below(F32Sub(IF move_x >= 0
                           THEN F32Sub(move_x, change_direction_term(ix))
                           ELSE move_x, acceleration_term(ix)),
                    -max_speed)
    ELSE move_x

\* lines 100-120: input.x < 0 raises move_x, input.x > 0 lowers it
accelerate(move_x, ix, max_speed) ==
    IF ix < 0 THEN
        limit_above(F32Add(IF move_x < 0
                           THEN F32Add(move_x, change_direction_term(ix))
                           ELSE move_x, acceleration_term(ix)),
                    max_speed)
    ELSE IF ix > 0 THEN
        limit_below(F32Sub(IF move_x > 0
                           THEN F32Sub(move_x, change_direction_term(ix))
                           ELSE move_x, acceleration_term(ix)),
                    -max_speed)
    ELSE move_x

\* Mutant of jump: the jumping flag is not consulted.
jump_while_jumping(move_y, jumping, iy) ==
    IF iy > 0
    THEN [move_y |-> IF move_y < UP_SPEED THEN UP_SPEED ELSE move_y,
          jumping |-> TRUE]
    ELSE [move_y |-> move_y, jumping |-> jumping]

\* lines 122-127: the jump step, on [move_y, jumping]
jump(move_y, jumping, iy) ==
    IF ~jumping /\ iy > 0
    THEN [move_y |-> IF move_y < UP_SPEED THEN UP_SPEED ELSE move_y,
          jumping |-> TRUE]
    ELSE [move_y |-> move_y, jumping |-> jumping]

\* Mutant of decelerate: no snap to zero below DECELERATION.
decelerate_no_snap(move_x) ==
    IF move_x > 0 THEN F32Sub(move_x, DECELERATION)
    ELSE IF move_x < 0 THEN F32Add(move_x, DECELERATION)
    ELSE move_x

\* lines 129-139: no horizontal input
decelerate(move_x) ==
    IF Abs(move_x) < DECELERATION THEN 0
    ELSE IF move_x > 0 THEN F32Sub(move_x, DECELERATION)
    ELSE IF move_x < 0 THEN F32Add(move_x, DECELERATION)
    ELSE move_x

\* Mutant of gravity: DECELERATION is added instead of subtracted.
gravity_rising(move_y) ==
    limit_below(F32Add(move_y, DECELERATION), MAX_FALL_SPEED)

\* Mutant of gravity: the fall speed is not clamped.
gravity_no_clamp(move_y) == F32Sub(move_y, DECELERATION)

\* lines 141-144
gravity(move_y) == limit_below(F32Sub(move_y, DECELERATION), MAX_FALL_SPEED)

\* lines 129, 140: deceleration applies when there is no horizontal input
decelerate_unless(move_left_or_right, move_x) ==
    IF ~move_left_or_right THEN decelerate(move_x) ELSE move_x

\* The player at the end of update_from_input, from the counter after its
\* decay step and j, the [move_y, jumping] the jump step leaves.
updated_player(p, in, counter, j) ==
    [p EXCEPT !.speed_up_counter = counter,
              !.move_x = decelerate_unless(in.x # 0,
                             accelerate(p.move_x, in.x,
                                        current_max_speed(counter))),
              !.move_y = gravity(j.move_y),
              !.jumping = TRUE]

\* Mutant of update_from_input: jumping is not set at the end of the call
\* (line 145 left out).
update_from_input_keeps_flag(p, in) ==
    [updated_player(p, in, speed_up_decay(p.speed_up_counter),
                    jump(p.move_y, p.jumping, in.y))
        EXCEPT !.jumping = jump(p.move_y, p.jumping, in.y).jumping]

update_from_input(p, in) ==
    updated_player(p, in, speed_up_decay(p.speed_up_counter),
                   jump(p.move_y, p.jumping, in.y))

\* lines 153-156: unit_velocity = move_x / (TILE_SIZE / 2.0);
\* rotation -= unit_velocity * 0.55
update_after_collision(p) ==
    [p EXCEPT !.rotation =
        F32Sub(p.rotation,
               F32Mul(F32Div(p.move_x, F32Div(TILE_SIZE, Two)),
                      RotationPerUnit))]

----------------------------------------------------------------------------
(* Platform.                                                               *)

Platform(x, y, width_segments, height_segments) ==
    [x |-> x, y |-> y, width_segments |-> width_segments,
     height_segments |-> height_segments]

PlatformMoveWorld(pl, offset_x, offset_y) ==
    [pl EXCEPT !.x = F32Add(pl.x, offset_x), !.y = F32Add(pl.y, offset_y)]

PlatformRect(pl) ==
    Rect(pl.x, pl.y,
         F32Mul(F32FromInt(pl.width_segments), TILE_SIZE),
         F32Mul(F32FromInt(pl.height_segments), TILE_SIZE))

----------------------------------------------------------------------------
(* Game.  A game value g holds the fields the frame changes:               *)
(* g.player, g.game_objects, g.background_offset.                          *)

GameOf(p, objs, bg) ==
    [player |-> p, game_objects |-> objs, background_offset |-> bg]

\* x * 0.25
Quarter(v) == F32Mul(v, Parallax)

\* Mutant of move_world: the background is shifted by the whole offset,
\* the parallax factor forgotten.
move_world_full_background(g, x, y) ==
    [g EXCEPT
        !.game_objects =
            [i \in 1..Len(g.game_objects) |->
                PlatformMoveWorld(g.game_objects[i], x, y)],
        !.background_offset =
            [x |-> F32Add(g.background_offset.x, x),
             y |-> F32Add(g.background_offset.y, y)]]

\* Mutant of move_world: the player is shifted with the platforms.
move_world_with_player(g, x, y) ==
    [g EXCEPT
        !.game_objects =
            [i \in 1..Len(g.game_objects) |->
                PlatformMoveWorld(g.game_objects[i], x, y)],
        !.player = [g.player EXCEPT !.x = F32Add(g.player.x, x),
                                    !.y = F32Add(g.player.y, y)],
        !.background_offset =
            [x |-> F32Add(g.background_offset.x, Quarter(x)),
             y |-> F32Add(g.background_offset.y, Quarter(y))]]

move_world(g, x, y) ==
    [g EXCEPT
        !.game_objects =
            [i \in 1..Len(g.game_objects) |->
                PlatformMoveWorld(g.game_objects[i], x, y)],
        !.background_offset =
            [x |-> F32Add(g.background_offset.x, Quarter(x)),
             y |-> F32Add(g.background_offset.y, Quarter(y))]]

\* lines 296-307: what one platform decides, from its intersection with
\* the player; acc is [is_colliding, offset_x].
left_right_decide(acc, pl, p, intersection) ==
    IF rect_is_empty_with_tolerance(intersection) THEN acc
    ELSE IF Left(PlatformRect(pl)) > Left(PlayerRect(p))
         THEN [is_colliding |-> TRUE, offset_x |-> intersection.w]
    ELSE IF Right(PlatformRect(pl)) < Right(PlayerRect(p))
         THEN [is_colliding |-> TRUE, offset_x |-> -intersection.w]
    ELSE acc

\* Mutant of left_right_step: once a platform has decided, later platforms
\* are not considered (the first one wins).
left_right_step_first_wins(acc, pl, p) ==
    IF acc.is_colliding THEN acc
    ELSE left_right_decide(acc, pl, p,
             rect_intersection(PlatformRect(pl), PlayerRect(p)))

\* One iteration of the loop of collision_left_right on platform pl.
left_right_step(acc, pl, p) ==
    left_right_decide(acc, pl, p,
        rect_intersection(PlatformRect(pl), PlayerRect(p)))

RECURSIVE left_right_scan(_, _, _, _)
left_right_scan(acc, objs, i, p) ==
    IF i > Len(objs) THEN acc
    ELSE left_right_scan(left_right_step(acc, objs[i], p), objs, i + 1, p)

\* lines 311-314: what follows the loop
left_right_resolve(g, acc) ==
    IF acc.is_colliding
    THEN [move_world(g, acc.offset_x, 0) EXCEPT !.player.move_x = 0]
    ELSE g

collision_left_right(g) ==
    left_right_resolve(g,
        left_right_scan([is_colliding |-> FALSE, offset_x |-> 0],
                        g.game_objects, 1, g.player))

\* lines 337, 344: platform.top > player.bottom - COLLISION_TOLERANCE + move_y,
\* subtracted and added left to right
landing_check(pl, p) ==
    Top(PlatformRect(pl)) >
        F32Add(F32Sub(Bottom(PlayerRect(p)), COLLISION_TOLERANCE), p.move_y)

\* Mutant of up_down_decide: a landing zeroes move_y and pushes the world
\* but leaves jumping set.
up_down_decide_keeps_jumping(acc, pl, p, intersection, top_check) ==
    IF rect_is_empty_with_tolerance(intersection) THEN acc
    ELSE IF Bottom(PlatformRect(pl)) < Bottom(PlayerRect(p)) THEN
        [player |-> IF p.move_y > 0 THEN [p EXCEPT !.move_y = 0] ELSE p,
         is_colliding |-> TRUE,
         offset_y |-> -intersection.h]
    ELSE IF top_check
        THEN [player |-> [p EXCEPT !.move_y = IF p.move_y < 0 THEN 0 ELSE p.move_y],
              is_colliding |-> TRUE,
              offset_y |-> intersection.h]
    ELSE acc

\* Mutant of up_down_decide: the landing test of a falling player looks at
\* the current position only (no + move_y).
up_down_decide_no_lookahead(acc, pl, p, intersection, top_check) ==
    IF rect_is_empty_with_tolerance(intersection) THEN acc
    ELSE IF Bottom(PlatformRect(pl)) < Bottom(PlayerRect(p)) THEN
        [player |-> IF p.move_y > 0 THEN [p EXCEPT !.move_y = 0] ELSE p,
         is_colliding |-> TRUE,
         offset_y |-> -intersection.h]
    ELSE IF p.move_y < 0 THEN
        IF Top(PlatformRect(pl)) >
                F32Sub(Bottom(PlayerRect(p)), COLLISION_TOLERANCE)
        THEN [player |-> [p EXCEPT !.move_y = 0, !.jumping = FALSE],
              is_colliding |-> TRUE,
              offset_y |-> intersection.h]
        ELSE acc
    ELSE IF top_check
        THEN [player |-> [p EXCEPT !.jumping = FALSE],
              is_colliding |-> TRUE,
              offset_y |-> intersection.h]
    ELSE acc

\* Mutant of up_down_decide: a ceiling bump zeroes move_y whatever its sign.
up_down_decide_ceiling_zeroes(acc, pl, p, intersection, top_check) ==
    IF rect_is_empty_with_tolerance(intersection) THEN acc
    ELSE IF Bottom(PlatformRect(pl)) < Bottom(PlayerRect(p)) THEN
        [player |-> [p EXCEPT !.move_y = 0],
         is_colliding |-> TRUE,
         offset_y |-> -intersection.h]
    ELSE IF p.move_y < 0 THEN
        IF top_check
        THEN [player |-> [p EXCEPT !.move_y = 0, !.jumping = FALSE],
              is_colliding |-> TRUE,
              offset_y |-> intersection.h]
        ELSE acc
    ELSE IF top_check
        THEN [player |-> [p EXCEPT !.jumping = FALSE],
              is_colliding |-> TRUE,
              offset_y |-> intersection.h]
    ELSE acc

\* lines 324-348: what one platform decides, from its intersection with
\* the player p and the landing test; acc is [player, is_colliding,
\* offset_y].
up_down_decide(acc, pl, p, intersection, top_check) ==
    IF rect_is_empty_with_tolerance(intersection) THEN acc
    ELSE IF Bottom(PlatformRect(pl)) < Bottom(PlayerRect(p)) THEN
        [player |-> IF p.move_y > 0 THEN [p EXCEPT !.move_y = 0] ELSE p,
         is_colliding |-> TRUE,
         offset_y |-> -intersection.h]
    ELSE IF p.move_y < 0 THEN
        IF top_check
        THEN [player |-> [p EXCEPT !.move_y = 0, !.jumping = FALSE],
              is_colliding |-> TRUE,
              offset_y |-> intersection.h]
        ELSE acc
    ELSE IF top_check
        THEN [player |-> [p EXCEPT !.jumping = FALSE],
              is_colliding |-> TRUE,
              offset_y |-> intersection.h]
    ELSE acc

\* Mutant of up_down_step: a landing leaves jumping set.
up_down_step_keeps_jumping(acc, pl) ==
    up_down_decide_keeps_jumping(acc, pl, acc.player,
        rect_intersection(PlatformRect(pl), PlayerRect(acc.player)),
        landing_check(pl, acc.player))

\* Mutant of up_down_step: the landing test of a falling player has no
\* look-ahead.
up_down_step_no_lookahead(acc, pl) ==
    up_down_decide_no_lookahead(acc, pl, acc.player,
        rect_intersection(PlatformRect(pl), PlayerRect(acc.player)),
        landing_check(pl, acc.player))

\* Mutant of up_down_step: a ceiling bump zeroes move_y whatever its sign.
up_down_step_ceiling_zeroes(acc, pl) ==
    up_down_decide_ceiling_zeroes(acc, pl, acc.player,
        rect_intersection(PlatformRect(pl), PlayerRect(acc.player)),
        landing_check(pl, acc.player))

\* One iteration of the loop of collision_up_down on platform pl: the
\* loop writes the player's move_y and jumping while it runs, and later
\* iterations read them.
up_down_step(acc, pl) ==
    up_down_decide(acc, pl, acc.player,
        rect_intersection(PlatformRect(pl), PlayerRect(acc.player)),
        landing_check(pl, acc.player))

RECURSIVE up_down_scan(_, _, _)
up_down_scan(acc, objs, i) ==
    IF i > Len(objs) THEN acc
    ELSE up_down_scan(up_down_step(acc, objs[i]), objs, i + 1)

\* Mutant of collision_up_down: the collision is detected and the player
\* updated, but the world is not pushed back.
collision_up_down_no_push(g) ==
    [g EXCEPT !.player =
        up_down_scan([player |-> g.player, is_colliding |-> FALSE,
                      offset_y |-> 0], g.game_objects, 1).player]

\* lines 352-354: what follows the loop
up_down_resolve(g, acc) ==
    IF acc.is_colliding
    THEN move_world([g EXCEPT !.player = acc.player], 0, acc.offset_y)
    ELSE [g EXCEPT !.player = acc.player]

collision_up_down(g) ==
    up_down_resolve(g,
        up_down_scan([player |-> g.player, is_colliding |-> FALSE,
                      offset_y |-> 0], g.game_objects, 1))

\* Game::new, lines 211-227
InitialObjects ==
    << Platform(Decimal(256, 1), Decimal(512, 1), 11, 5),
       Platform(Decimal(768, 1), Decimal(512, 1), 10, 5),
       Platform(Decimal(1216, 1), Decimal(512, 1), 9, 5) >>

player_x == Decimal(384, 1)
player_y == Decimal(480, 1)
center_x == F32Sub(F32Div(SCREEN_WIDTH, Two), F32Div(TILE_SIZE, Two))
center_y == F32Sub(F32Div(SCREEN_HEIGHT, Two), F32Div(TILE_SIZE, Two))

GameNew ==
    move_world(GameOf(PlayerNew(center_x, center_y), InitialObjects,
                      [x |-> 0, y |-> 0]),
               F32Sub(center_x, player_x), F32Sub(center_y, player_y))

\* The body of EventHandler::update, lines 384-393, as a function of the
\* game value and the input vector.
\* line 388
with_player(g, p) == [g EXCEPT !.player = p]

\* line 389: the horizontal shift by the player's move_x
shift_x(g) == move_world(g, g.player.move_x, 0)

\* line 391: the vertical shift by the player's move_y
shift_y(g) == move_world(g, 0, g.player.move_y)

\* line 393
after_collision(g) == [g EXCEPT !.player = update_after_collision(g.player)]

\* after update_from_input and the horizontal shift
FrameMovedX(g, in) == shift_x(with_player(g, update_from_input(g.player, in)))

\* after collision_left_right and the vertical shift
FrameMovedY(g, in) == shift_y(collision_left_right(FrameMovedX(g, in)))

update(g, in) == after_collision(collision_up_down(FrameMovedY(g, in)))

Game == GameOf(player, game_objects, background_offset)

---------------------------------------------------------------------------------------------------------------------------------------------------
(* Budget of the exploration.  The program runs without end; a run of the  *)
(* model is cut off by the budget, which is spent in Next and in no        *)
(* handler.                                                                *)

\* Key events delivered in one run of the game.
MaxKeyEvents == 2
\* Jump impulses given in one run of the game (in f32 the background does
\* not come back to the same offset after a jump, so that jumping on the
\* spot never repeats a state).
MaxJumps == 2
\* Frames are explored until the level has scrolled this many tiles up
\* (the player has fallen that far below the tops of the platforms).
MaxDropTiles == 17
\* update_from_input calls in one run of SpecPlayer.
MaxCalls == 6
\* update_from_input calls in one run of SpecHeld.
MaxHeldCalls == 363
\* Key events and frames in one run of SpecKeys.
MaxEvents == 4

----------------------------------------------------------------------------
(* The running game.                                                       *)

KeyCodes == {"Left", "Right", "Up", "Other"}

\* Mutant of key_down: the last branch is a plain else, so every other
\* key acts as Up.
key_down_else_up(in, keycode) ==
    IF keycode = "Left" THEN [in EXCEPT !.x = -One]
    ELSE IF keycode = "Right" THEN [in EXCEPT !.x = One]
    ELSE [in EXCEPT !.y = One]

key_down(in, keycode) ==
    IF keycode = "Left" THEN [in EXCEPT !.x = -One]
    ELSE IF keycode = "Right" THEN [in EXCEPT !.x = One]
    ELSE IF keycode = "Up" THEN [in EXCEPT !.y = One]
    ELSE in

\* Mutant of key_up: releasing a horizontal key clears input.x only if the
\* vector still points the way of that key.
key_up_if_current(in, keycode) ==
    IF keycode = "Left"
    THEN [in EXCEPT !.x = IF in.x = -One THEN 0 ELSE in.x]
    ELSE IF keycode = "Right"
    THEN [in EXCEPT !.x = IF in.x = One THEN 0 ELSE in.x]
    ELSE IF keycode = "Up" THEN [in EXCEPT !.y = 0]
    ELSE in

key_up(in, keycode) ==
    IF keycode = "Left" THEN [in EXCEPT !.x = 0]
    ELSE IF keycode = "Right" THEN [in EXCEPT !.x = 0]
    ELSE IF keycode = "Up" THEN [in EXCEPT !.y = 0]
    ELSE in

Init ==
    /\ player = GameNew.player
    /\ game_objects = GameNew.game_objects
    /\ background_offset = GameNew.background_offset
    /\ input_acceleration = [x |-> 0, y |-> 0]
    /\ key_events = 0
    /\ jumps = 0
    /\ calls = 0
    /\ start_counter = 0
    /\ events = << >>
    /\ rects = NoRects

\* key_down_event; key_events counts the events delivered.
KeyDown(keycode) ==
    /\ input_acceleration' = key_down(input_acceleration, keycode)
    /\ key_events' = key_events + 1
    /\ UNCHANGED <<player, game_objects, background_offset, jumps, calls,
                   start_counter, events, rects>>

\* key_up_event
KeyUp(keycode) ==
    /\ input_acceleration' = key_up(input_acceleration, keycode)
    /\ key_events' = key_events + 1
    /\ UNCHANGED <<player, game_objects, background_offset, jumps, calls,
                   start_counter, events, rects>>

\* The frame about to run gives a jump impulse (line 122).
JumpDue == ~player.jumping /\ input_acceleration.y > 0

\* EventHandler::update; jumps counts the jump impulses given.
Update ==
    /\ \E g \in {update(Game, input_acceleration)} :
           /\ player' = g.player
           /\ game_objects' = g.game_objects
           /\ background_offset' = g.background_offset
    /\ jumps' = IF JumpDue THEN jumps + 1 ELSE jumps
    /\ UNCHANGED <<input_acceleration, key_events, calls, start_counter,
                   events, rects>>

\* The budget: key events are left,
KeysLeft == key_events < MaxKeyEvents

\* the tops of the platforms are no more than MaxDropTiles tiles above the
\* player's bottom edge,
WithinDrop ==
    F32Sub(Bottom(PlayerRect(player)), game_objects[1].y)
        <= F32Mul(F32FromInt(MaxDropTiles), TILE_SIZE)

\* and the frame gives no jump impulse beyond MaxJumps.
FramesLeft == WithinDrop /\ (JumpDue => jumps < MaxJumps)

\* The event loop: key events and frames in any order, while the budget
\* lasts.
Next ==
    \/ KeysLeft /\ \E keycode \in KeyCodes : KeyDown(keycode)
    \/ KeysLeft /\ \E keycode \in KeyCodes : KeyUp(keycode)
    \/ FramesLeft /\ Update

Spec == Init /\ [][Next]_vars

----------------------------------------------------------------------------
(* Player-level specifications: update_from_input applied directly to a    *)
(* player drawn from a bounded set of starting states, the boost window    *)
(* included (no operation of the game opens it).                           *)

Inputs == {[x |-> ix, y |-> iy] : ix \in {-One, 0, One}, iy \in {0, One}}

\* speed_up_counter at the start: off, just set, and about to expire
StartCounters == {0, 1, MAX_SPEEDUP_COUNT - 1, MAX_SPEEDUP_COUNT}

\* move_x at the start, within the max speed in force: the extremes, one
\* acceleration step, and 0.08, less than one deceleration step
StartMoveX(c) ==
    {-current_max_speed(c), -MAX_SPEED, -ACCELERATION, -Decimal(8, 100), 0,
     Decimal(8, 100), ACCELERATION, MAX_SPEED, current_max_speed(c)}

\* move_y after n gravity steps from v: the steps are made in two halves,
\* and once at the clamp move_y stays there
RECURSIVE GravitySteps(_, _)
GravitySteps(v, n) ==
    IF n = 0 THEN v
    ELSE IF n = 1 THEN gravity(v)
    ELSE LET half == GravitySteps(v, n \div 2)
         IN  IF half = MAX_FALL_SPEED THEN MAX_FALL_SPEED
             ELSE GravitySteps(half, n - (n \div 2))

\* move_y after n gravity steps from 0
Fallen(n) == GravitySteps(0, n)

\* move_y and jumping at the start: standing, just jumped, one step from
\* the fall-speed clamp (68 gravity steps from 0)
StartVertical ==
    {[move_y |-> 0, jumping |-> FALSE],
     [move_y |-> F32Sub(UP_SPEED, DECELERATION), jumping |-> TRUE],
     [move_y |-> Fallen(68), jumping |-> TRUE]}

StartPlayers ==
    {[GameNew.player EXCEPT !.speed_up_counter = c, !.move_x = mx,
                             !.move_y = v.move_y, !.jumping = v.jumping] :
        c \in StartCounters, mx \in UNION {StartMoveX(k) : k \in StartCounters},
        v \in StartVertical}

InitPlayer ==
    /\ player \in {p \in StartPlayers : p.move_x \in StartMoveX(p.speed_up_counter)}
    /\ start_counter = player.speed_up_counter
    /\ game_objects = GameNew.game_objects
    /\ background_offset = GameNew.background_offset
    /\ input_acceleration = [x |-> 0, y |-> 0]
    /\ key_events = 0
    /\ jumps = 0
    /\ calls = 0
    /\ events = << >>
    /\ rects = NoRects

\* One call update_from_input(in); input_acceleration keeps the argument.
PlayerCall(in) ==
    /\ calls < MaxCalls
    /\ input_acceleration' = in
    /\ player' = update_from_input(player, in)
    /\ calls' = calls + 1
    /\ UNCHANGED <<game_objects, background_offset, key_events, jumps,
                   start_counter, events, rects>>

NextPlayer == \E in \in Inputs : PlayerCall(in)

SpecPlayer == InitPlayer /\ [][NextPlayer]_vars

\* The same calls with the input vector held at its starting value, frame
\* after frame, as the event loop does while no key event arrives.
InitHeld ==
    /\ player \in {p \in StartPlayers : p.move_x \in StartMoveX(p.speed_up_counter)}
    /\ start_counter = player.speed_up_counter
    /\ game_objects = GameNew.game_objects
    /\ background_offset = GameNew.background_offset
    /\ input_acceleration \in Inputs
    /\ key_events = 0
    /\ jumps = 0
    /\ calls = 0
    /\ events = << >>
    /\ rects = NoRects

HeldCall ==
    /\ calls < MaxHeldCalls
    /\ player' = update_from_input(player, input_acceleration)
    /\ calls' = calls + 1
    /\ UNCHANGED <<game_objects, background_offset, input_acceleration,
                   key_events, jumps, start_counter, events, rects>>

\* The event loop does not stop: while a call can be made, one is made.
\* (Every step of SpecHeld is a HeldCall, so the steps that raise calls
\* are the HeldCall steps.)
CallMade == calls < MaxHeldCalls /\ calls' = calls + 1

SpecHeld == InitHeld /\ [][HeldCall]_vars /\ WF_calls(CallMade)

----------------------------------------------------------------------------
(* Claims.                                                                 *)

\* The platform's rect and the player's rect overlap by more than the
\* tolerance.
Penetrates(pl, p) ==
    ~rect_is_empty_with_tolerance(rect_intersection(PlatformRect(pl), PlayerRect(p)))

\* The horizontal extent shared by the platform and the player.
OverlapWidth(pl, p) ==
    F32Sub(Min(Right(PlatformRect(pl)), Right(PlayerRect(p))),
           Max(Left(PlatformRect(pl)), Left(PlayerRect(p))))

\* The player stands on the platform: bottom edge on its top edge, with
\* horizontal overlap beyond the tolerance.
StandsOn(pl, p) ==
    /\ Top(PlatformRect(pl)) = Bottom(PlayerRect(p))
    /\ OverlapWidth(pl, p) >= RECT_TOLERANCE

\* C1: no tunneling. At the end of every frame (and so in every reachable
\* state: key events move nothing) no platform rect overlaps the player
\* rect beyond the tolerance.
C1_NoTunneling ==
    \A i \in 1..Len(game_objects) : ~Penetrates(game_objects[i], player)

\* C1 witness: a corner landing at speed.  The player has run to the
\* right and jumped the gap, and collision_up_down has resolved its landing
\* on the left corner of the second platform: it stands on that platform
\* with part of its width still over the gap, and is still moving.
C1_Witness ==
    /\ StandsOn(game_objects[2], player)
    /\ OverlapWidth(game_objects[2], player) < TILE_SIZE
    /\ Left(PlatformRect(game_objects[2])) > Left(PlayerRect(player))
    /\ ~player.jumping
    /\ player.move_y = 0
    /\ player.move_x < 0
    /\ jumps >= 1

\* The player is at rest on top of a platform.
AtRest ==
    /\ player.move_x = 0
    /\ player.move_y = 0
    /\ ~player.jumping
    /\ \E i \in 1..Len(game_objects) : StandsOn(game_objects[i], player)

\* C2: resting stability. From a state at rest with the input vector at
\* (0,0), a step (a frame; a key event moves nothing) leaves move_y at 0,
\* jumping false, move_x at 0 and every platform where it was, so the next
\* frame starts at rest again.
C2_RestingStable ==
    [][(AtRest /\ input_acceleration = [x |-> 0, y |-> 0])
        => /\ player'.move_y = 0
           /\ ~player'.jumping
           /\ player'.move_x = 0
           /\ game_objects' = game_objects]_vars

\* C2 witness: the player is at rest on the platform Game::new put it on,
\* the level is in view, so that frames run, and a key event has been
\* delivered that left the input vector at (0,0).
C2_Witness ==
    /\ AtRest
    /\ StandsOn(game_objects[1], player)
    /\ input_acceleration = [x |-> 0, y |-> 0]
    /\ key_events = 1
    /\ FramesLeft

\* C5: move_y never falls below MAX_FALL_SPEED: not in any reachable state,
\* and not after the gravity step of a frame's update_from_input call; that
\* step lowers the move_y left by the jump step by DECELERATION and clamps
\* it at MAX_FALL_SPEED; and the frame's collision passes leave that move_y
\* alone or set it to 0.  (A step that delivers no key event is a frame.)
C5_FallSpeedClamped ==
    /\ [](player.move_y >= MAX_FALL_SPEED)
    /\ [][key_events' = key_events
            => LET after_jump == jump(player.move_y, player.jumping,
                                      input_acceleration.y).move_y
                   after_call == update_from_input(player, input_acceleration).move_y
               IN  /\ after_call >= MAX_FALL_SPEED
                   /\ after_call = Max(F32Sub(after_jump, DECELERATION), MAX_FALL_SPEED)
                   /\ player'.move_y \in {after_call, 0}]_vars

\* C5 witness: the clamp has acted: 68 gravity steps from 0 leave move_y
\* above MAX_FALL_SPEED and the 69th would pass it.
C5_Witness ==
    /\ player.move_y = MAX_FALL_SPEED
    /\ Fallen(68) > MAX_FALL_SPEED
    /\ F32Sub(Fallen(68), DECELERATION) < MAX_FALL_SPEED
    /\ input_acceleration.x < 0

\* C10: move the world, not the player: the player's position is the
\* screen-centre value set at creation in every reachable state.
C10_PlayerNeverMoves ==
    /\ player.x = center_x
    /\ player.y = center_y
    /\ PlayerRect(player) = Rect(center_x, center_y, TILE_SIZE, TILE_SIZE)

\* C10 witness: the world has been shifted both ways and a collision has
\* been resolved by a push-back: the player, having walked off the first
\* platform with Right held, is flush against the left wall of the second.
C10_Witness ==
    /\ Right(PlayerRect(player)) = Left(PlatformRect(game_objects[2]))
    /\ Bottom(PlayerRect(player)) > Top(PlatformRect(game_objects[2]))
    /\ background_offset.x < GameNew.background_offset.x
    /\ background_offset.y < GameNew.background_offset.y

\* C3: after every update_from_input call whose input.x is not zero,
\* |move_x| is within the max speed in force in that call: the boosted one
\* while speed_up_counter is positive after the decay step, else the base.
C3_SpeedWithinMaxUnderInput ==
    [][(calls' = calls + 1 /\ input_acceleration'.x # 0)
        => Abs(player'.move_x) <= current_max_speed(player'.speed_up_counter)]_vars

\* C3 witness: the call in which the boost window expired was made with
\* Left held at the boosted max speed, and the clamp brought move_x down to
\* the base max speed.
C3_Witness ==
    /\ start_counter = MAX_SPEEDUP_COUNT
    /\ calls = 1
    /\ input_acceleration.x = -One
    /\ player.speed_up_counter = 0
    /\ player.move_x = MAX_SPEED

\* C4, as claimed: in every state |move_x| is within the max speed in
\* force, boosted exactly while speed_up_counter > 0.
C4_SpeedWithinMax ==
    Abs(player.move_x) <= current_max_speed(player.speed_up_counter)

\* C6: with input.x held at 0, move_x reaches 0 and stays there, and on
\* the way no call raises |move_x| or changes the sign of move_x.
C6_DecelerationConverges ==
    /\ (input_acceleration.x = 0) => <>[](player.move_x = 0)
    /\ [][(input_acceleration.x = 0)
            => /\ Abs(player'.move_x) <= Abs(player.move_x)
               /\ player.move_x > 0 => player'.move_x >= 0
               /\ player.move_x < 0 => player'.move_x <= 0
               /\ (player.move_x # 0 => Abs(player'.move_x) < Abs(player.move_x))]_vars

\* C6 witness: with no horizontal input, calls have brought move_x below
\* DECELERATION but not to 0: the next call snaps it to 0.
C6_Witness ==
    /\ input_acceleration.x = 0
    /\ calls > 0
    /\ player.move_x # 0
    /\ Abs(player.move_x) < DECELERATION

\* C7: a call with input.y > 0 and jumping false: the jump step sets move_y
\* to UP_SPEED and jumping to true (the call then applies gravity once); a
\* call with input.y > 0 and jumping true gives the same player as the same
\* call with input.y = 0.
C7_Jump ==
    [][(calls' = calls + 1 /\ input_acceleration'.y > 0)
        => /\ ~player.jumping
              => /\ jump(player.move_y, player.jumping, input_acceleration'.y)
                        = [move_y |-> UP_SPEED, jumping |-> TRUE]
                 /\ player'.move_y = F32Sub(UP_SPEED, DECELERATION)
                 /\ player'.jumping
           /\ player.jumping
              => player' = update_from_input(player,
                                [input_acceleration' EXCEPT !.y = 0])]_vars

\* C7 witness: the first call jumped from standing and the second call,
\* again with input.y > 0, only applied gravity.
C7_Witness ==
    /\ calls = 2
    /\ input_acceleration.y > 0
    /\ player.jumping
    /\ player.move_y = F32Sub(F32Sub(UP_SPEED, DECELERATION), DECELERATION)

\* C8, as claimed: a counter just set (to 1) is positive after each of the
\* first 360 calls and is 0 after call 361.
C8_Window361 ==
    start_counter = 1
        => /\ calls < MAX_SPEEDUP_COUNT + 1 => player.speed_up_counter > 0
           /\ calls = MAX_SPEEDUP_COUNT + 1 => player.speed_up_counter = 0

\* C8, amended: a counter set to v > 0 counts up by one per call, is
\* positive after each of the first 360 - v calls, is 0 after call 361 - v
\* and from then on, and the call that resets it clamps with the base max
\* speed.
C8_Window ==
    start_counter > 0
        => /\ calls < MAX_SPEEDUP_COUNT + 1 - start_counter
                => player.speed_up_counter = start_counter + calls
           /\ calls >= MAX_SPEEDUP_COUNT + 1 - start_counter
                => player.speed_up_counter = 0
           /\ (calls = MAX_SPEEDUP_COUNT + 1 - start_counter
                    /\ input_acceleration.x # 0)
                => Abs(player.move_x) <= MAX_SPEED

\* C8 witness: set to 1, the counter has just been reset by call 360, made
\* with Left held at the boosted max speed and clamped to the base one.
C8_Witness ==
    /\ start_counter = 1
    /\ calls = MAX_SPEEDUP_COUNT
    /\ player.speed_up_counter = 0
    /\ input_acceleration.x = -One
    /\ player.move_x = MAX_SPEED

\* C9, as claimed: from rest, one call with input.x = -1 gives
\* move_x = -ACCELERATION.
C9_FromRestNegative ==
    [][(calls' = calls + 1 /\ player.move_x = 0 /\ input_acceleration'.x = -One)
        => player'.move_x = -ACCELERATION]_vars

\* C9, amended: from rest, one call with input.x = -1 gives
\* move_x = +ACCELERATION.
C9_FromRest ==
    [][(calls' = calls + 1 /\ player.move_x = 0 /\ input_acceleration'.x = -One)
        => player'.move_x = ACCELERATION]_vars

\* C9 witness: one call with input.x = -1 has left move_x at ACCELERATION;
\* of the starting values only 0 gives that.
C9_Witness ==
    /\ calls = 1
    /\ input_acceleration.x = -One
    /\ player.move_x = ACCELERATION
    /\ player.speed_up_counter = 0

\* The displacement of platform i from its construction position.
Displacement(i) ==
    [x |-> F32Sub(game_objects[i].x, InitialObjects[i].x),
     y |-> F32Sub(game_objects[i].y, InitialObjects[i].y)]

\* 4 x background_offset, the displacement the background stands for
\* (the product by 4.0 is exact).
Four == Decimal(4, 1)
BackgroundShift ==
    [x |-> F32Mul(Four, background_offset.x),
     y |-> F32Mul(Four, background_offset.y)]

\* C11 as claimed: in every reachable state all platforms are displaced
\* from their construction positions by one and the same vector D, their
\* sizes are unchanged, and background_offset is 0.25 x D.
C11_UniformShiftExact ==
    /\ Len(game_objects) = Len(InitialObjects)
    /\ \A i \in 1..Len(game_objects) :
        /\ Displacement(i) = Displacement(1)
        /\ game_objects[i].width_segments = InitialObjects[i].width_segments
        /\ game_objects[i].height_segments = InitialObjects[i].height_segments
    /\ BackgroundShift = Displacement(1)

\* The part of a game value that a world shift moves.
World(g) ==
    [game_objects |-> g.game_objects,
     background_offset |-> g.background_offset]

\* The world w after a uniform shift by (ox, oy): the offset is added to
\* the position of every platform and, times 0.25, to the background, each
\* sum rounded to f32; nothing else of a platform changes.
UniformShift(w, ox, oy) ==
    [game_objects |->
        [i \in 1..Len(w.game_objects) |->
            [w.game_objects[i] EXCEPT !.x = F32Add(@, ox),
                                      !.y = F32Add(@, oy)]],
     background_offset |->
        [x |-> F32Add(w.background_offset.x, F32Mul(ox, Parallax)),
         y |-> F32Add(w.background_offset.y, F32Mul(oy, Parallax))]]

\* The push-back a collision loop has decided on: its offset if a platform
\* collided, no shift otherwise.
PushX(acc) == IF acc.is_colliding THEN acc.offset_x ELSE 0
PushY(acc) == IF acc.is_colliding THEN acc.offset_y ELSE 0

LeftRightPush(g) ==
    PushX(left_right_scan([is_colliding |-> FALSE, offset_x |-> 0],
                          g.game_objects, 1, g.player))

UpDownPush(g) ==
    PushY(up_down_scan([player |-> g.player, is_colliding |-> FALSE,
                        offset_y |-> 0], g.game_objects, 1))

\* The four world shifts of a frame, each uniform: g4 is the game after
\* the vertical push-back, and the step ends with its world.
UniformPushY(g3, g4) ==
    /\ World(g4) = UniformShift(World(g3), 0, UpDownPush(g3))
    /\ World(GameOf(player', game_objects', background_offset')) = World(g4)

\* g3 is the game after the vertical shift by move_y
UniformShiftY(g2, g3) ==
    /\ World(g3) = UniformShift(World(g2), 0, g2.player.move_y)
    /\ UniformPushY(g3, collision_up_down(g3))

\* g2 is the game after the horizontal push-back
UniformPushX(g1, g2) ==
    /\ World(g2) = UniformShift(World(g1), LeftRightPush(g1), 0)
    /\ UniformShiftY(g2, shift_y(g2))

\* g1 is the game after update_from_input and the horizontal shift by
\* move_x
UniformShiftX(g, g1) ==
    /\ World(g1) = UniformShift(World(g), g1.player.move_x, 0)
    /\ UniformPushX(g1, collision_left_right(g1))

\* The platforms as constructed, the background at (0, 0): the world
\* before Game::new centres it.
WorldAsConstructed ==
    [game_objects |-> InitialObjects,
     background_offset |-> [x |-> 0, y |-> 0]]

\* Sizes are as constructed and all platforms have risen or sunk alike.
C11_SameRise ==
    /\ Len(game_objects) = Len(InitialObjects)
    /\ \A i \in 1..Len(game_objects) :
        /\ Displacement(i).y = Displacement(1).y
        /\ game_objects[i].width_segments = InitialObjects[i].width_segments
        /\ game_objects[i].height_segments = InitialObjects[i].height_segments

\* A key event moves nothing; a frame moves the world by four uniform
\* shifts.
C11_Step ==
    IF key_events' # key_events
    THEN UNCHANGED <<game_objects, background_offset>>
    ELSE UniformShiftX(Game, FrameMovedX(Game, input_acceleration))

\* C11 amended: every world shift (the centring shift of Game::new, the two
\* shifts of a frame and both collision push-backs) adds one and the same
\* offset to the position of every platform and 0.25 x that offset to
\* background_offset, each sum rounded to f32.  In every reachable state
\* the platforms keep their sizes and have one and the same vertical
\* displacement (they start at one y).  Nothing is claimed of the
\* accumulated horizontal displacements: each platform's x is rounded on
\* its own, and they drift apart.  (The first conjunct is of the initial
\* state: Game::new centres the level by one uniform shift.)
C11_UniformShift ==
    /\ World(Game) = UniformShift(WorldAsConstructed,
                                  F32Sub(center_x, player_x),
                                  F32Sub(center_y, player_y))
    /\ []C11_SameRise
    /\ [][C11_Step]_vars

\* C11 witness: a horizontal push-back has been applied: the player, with
\* Right held, has been stopped flush against the left wall of the second
\* platform, below its top edge; and the second platform is no longer
\* displaced exactly as the first.
C11_Witness ==
    /\ Right(PlayerRect(player)) = Left(PlatformRect(game_objects[2]))
    /\ Bottom(PlayerRect(player)) >
            F32Add(Top(PlatformRect(game_objects[2])), RECT_TOLERANCE)
    /\ player.move_x = 0
    /\ input_acceleration.x = One
    /\ Displacement(2).x # Displacement(1).x

\* The player's bottom edge is on the top edge of some platform.
Touches(objs, p) == \E i \in 1..Len(objs) : StandsOn(objs[i], p)
InContact == Touches(game_objects, player)

\* C14: the jump-flag protocol. jumping is false only in contact with a
\* platform; in a frame (a step that delivers no key event) the call
\* update_from_input leaves jumping true, so jumping is false afterwards
\* only on a contact that collision_up_down resolved; move_y is raised to a
\* positive value (a jump impulse) only from a state in contact with
\* jumping false and Up held; and from a state with jumping true the frame
\* ends with move_y one gravity step lower or zeroed by a collision,
\* whatever the Up key.
C14_JumpFlagProtocol ==
    /\ [](~player.jumping => InContact)
    /\ [][key_events' = key_events
            => /\ update_from_input(player, input_acceleration).jumping
               /\ ~player'.jumping => (Touches(game_objects', player') /\ player'.move_y = 0)
               /\ (player'.move_y > player.move_y /\ player'.move_y > 0)
                    => (~player.jumping /\ InContact /\ input_acceleration.y > 0)
               /\ player.jumping
                    => player'.move_y \in {gravity(player.move_y), 0}]_vars

\* C14 witness: Up is held while the player is airborne and falling.
C14_Witness ==
    /\ input_acceleration.y > 0
    /\ player.jumping
    /\ player.move_y < 0
    /\ ~InContact

\* C18: move_y is at most UP_SPEED - DECELERATION in every reachable state
\* (each is the start or the end of a frame), the jump step of the next call
\* leaves it at most UP_SPEED for every input, and when a jump can happen
\* (jumping false) move_y is below UP_SPEED, so the jump step always assigns
\* UP_SPEED.
C18_UpSpeedBound ==
    /\ player.move_y <= F32Sub(UP_SPEED, DECELERATION)
    /\ \A in \in Inputs :
        jump(player.move_y, player.jumping, in.y).move_y <= UP_SPEED
    /\ ~player.jumping => player.move_y < UP_SPEED

\* C18 witness: the frame of a jump has just ended.
C18_Witness ==
    /\ player.move_y = F32Sub(UP_SPEED, DECELERATION)
    /\ player.jumping
    /\ ~InContact

\* C19: the boost is unreachable in the game: speed_up_counter is 0, the
\* max speed in force is MAX_SPEED, and |move_x| <= MAX_SPEED, in every
\* reachable state.
C19_NoBoost ==
    /\ player.speed_up_counter = 0
    /\ current_max_speed(player.speed_up_counter) = MAX_SPEED
    /\ Abs(player.move_x) <= MAX_SPEED

\* C19 witness: the player has accelerated up to the clamp at MAX_SPEED.
C19_Witness ==
    /\ Abs(player.move_x) = MAX_SPEED
    /\ player.speed_up_counter = 0
    /\ input_acceleration.x # 0

----------------------------------------------------------------------------
(* rect_intersection on its own: two rectangles are drawn at Init and the  *)
(* function is applied to them once.                                       *)

\* Origins: 0, 0.05 and 0.3.  Sizes: half the tolerance, the tolerance,
\* 0.4 and 1.  From 0.05 and 0.3 the sum x + w is rounded, so that
\* (x + w) - x need not give w back.
RectOrigins == {0, Decimal(5, 100), Decimal(3, 10)}
RectSizes == {Decimal(5, 100), RECT_TOLERANCE, Decimal(4, 10), One}
TestRects == {Rect(x, y, w, h) : x \in RectOrigins, y \in RectOrigins,
                                 w \in RectSizes, h \in RectSizes}

InitRect ==
    /\ player = GameNew.player
    /\ game_objects = GameNew.game_objects
    /\ background_offset = GameNew.background_offset
    /\ input_acceleration = [x |-> 0, y |-> 0]
    /\ key_events = 0
    /\ jumps = 0
    /\ calls = 0
    /\ start_counter = 0
    /\ events = << >>
    /\ \E a \in TestRects, b \in TestRects :
           rects = [a |-> a, b |-> b, out |-> RectZero, done |-> FALSE]

Intersect ==
    /\ ~rects.done
    /\ rects' = [rects EXCEPT !.out = rect_intersection(rects.a, rects.b),
                              !.done = TRUE]
    /\ UNCHANGED <<player, game_objects, input_acceleration, background_offset,
                   key_events, jumps, calls, start_counter, events>>

SpecRect == InitRect /\ [][Intersect]_vars

\* The two rectangles share no interior point.
NonOverlapping(a, b) ==
    \/ Right(a) <= Left(b)
    \/ Right(b) <= Left(a)
    \/ Bottom(a) <= Top(b)
    \/ Bottom(b) <= Top(a)

\* The width and height of a as its edges give them: right - left and
\* bottom - top, each rounded to f32.
EdgeWidth(a) == F32Sub(Right(a), Left(a))
EdgeHeight(a) == F32Sub(Bottom(a), Top(a))

\* C13 as stated: rect_intersection is the zero rectangle for
\* non-overlapping rectangles, and rect_intersection(a, a) = a for every
\* rectangle a.
C13_SelfIntersectionAny ==
    rects.done =>
        /\ NonOverlapping(rects.a, rects.b) => rects.out = RectZero
        /\ rects.a = rects.b => rects.out = rects.a

\* C13 amended: rect_intersection is the zero rectangle for non-overlapping
\* rectangles; rect_intersection(a, a) has the origin of a and, for width
\* and height, right - left and bottom - top of a as f32 gives them, which
\* are the width and height of a only up to rounding; and it is the zero
\* rectangle when one of the two is below RECT_TOLERANCE.  So it is a
\* unchanged exactly when (x + w) - x = w >= RECT_TOLERANCE and
\* (y + h) - y = h >= RECT_TOLERANCE in f32.
C13_SelfIntersection ==
    rects.done =>
        /\ NonOverlapping(rects.a, rects.b) => rects.out = RectZero
        /\ rects.a = rects.b =>
              /\ rects.out =
                    IF EdgeWidth(rects.a) >= RECT_TOLERANCE
                            /\ EdgeHeight(rects.a) >= RECT_TOLERANCE
                    THEN Rect(rects.a.x, rects.a.y,
                              EdgeWidth(rects.a), EdgeHeight(rects.a))
                    ELSE RectZero
              /\ rects.out = rects.a
                    <=> /\ EdgeWidth(rects.a) = rects.a.w
                        /\ EdgeHeight(rects.a) = rects.a.h
                        /\ rects.a.w >= RECT_TOLERANCE
                        /\ rects.a.h >= RECT_TOLERANCE

\* A rectangle RECT_TOLERANCE wide and 1 high at x = 0.3, y = 0 has been
\* intersected with itself and the zero rectangle came back: its edges are
\* 0.3 and 0.4, and 0.4 - 0.3 is below 0.1 in f32.
C13_Witness ==
    /\ rects.done
    /\ rects.a = rects.b
    /\ rects.a = Rect(Decimal(3, 10), 0, RECT_TOLERANCE, One)
    /\ Right(rects.a) = Decimal(4, 10)
    /\ rects.out = RectZero

----------------------------------------------------------------------------
(* collision_up_down on its own: the player, with the vertical speed and   *)
(* jump flag one iteration of the loop can find, and one platform placed   *)
(* around it; the function is applied once.                                *)

\* move_y at the call: the fall-speed clamp, 25 gravity steps and one
\* gravity step from 0, 0 (zeroed by an earlier iteration), and the first
\* frame of a jump.
CollisionMoveY ==
    {MAX_FALL_SPEED, Fallen(25), Fallen(1), 0, F32Sub(UP_SPEED, DECELERATION)}

\* 0.02 and 0.06, small against the tolerances
Small == Decimal(2, 100)
Thin == Decimal(6, 100)

\* Depths of overlap: below and at the tolerance, around
\* COLLISION_TOLERANCE - move_y for each falling speed, a full tile and
\* more.
OverlapDepths ==
    {Thin, RECT_TOLERANCE}
    \cup {F32Sub(F32Sub(COLLISION_TOLERANCE, v), s) :
            v \in {0, Fallen(1), Fallen(25), MAX_FALL_SPEED}, s \in {0, Small}}
    \cup {F32Sub(TILE_SIZE, Small), TILE_SIZE, F32Add(TILE_SIZE, COLLISION_TOLERANCE)}

\* Platforms one or five tiles high whose top edge is an overlap depth
\* above the player's bottom edge, or whose top edge is a tile less an
\* overlap depth above the player's top edge; beside the player, over it by
\* less than and by the tolerance, aligned with it and across it.
UpDownPlatforms ==
    {Platform(F32Add(center_x, dx), F32Add(center_y, dy), ws, hs) :
        dx \in {-TILE_SIZE, F32Sub(Thin, TILE_SIZE),
                F32Sub(RECT_TOLERANCE, TILE_SIZE), 0, F32Sub(TILE_SIZE, Two)},
        dy \in {F32Sub(TILE_SIZE, d) : d \in OverlapDepths}
                \cup {F32Sub(d, TILE_SIZE) : d \in OverlapDepths},
        ws \in {1, 3}, hs \in {1, 5}}

InitUpDown ==
    /\ \E v \in CollisionMoveY, j \in BOOLEAN :
           player = [GameNew.player EXCEPT !.move_y = v, !.jumping = j]
    /\ \E pl \in UpDownPlatforms : game_objects = <<pl>>
    /\ background_offset = GameNew.background_offset
    /\ input_acceleration = [x |-> 0, y |-> 0]
    /\ key_events = 0
    /\ jumps = 0
    /\ calls = 0
    /\ start_counter = 0
    /\ events = << >>
    /\ rects = NoRects

CollideUpDown ==
    /\ calls = 0
    /\ \E g \in {collision_up_down(Game)} :
           /\ player' = g.player
           /\ game_objects' = g.game_objects
           /\ background_offset' = g.background_offset
    /\ calls' = 1
    /\ UNCHANGED <<input_acceleration, key_events, jumps, start_counter,
                   events, rects>>

SpecUpDown == InitUpDown /\ [][CollideUpDown]_vars

\* The height of the overlap of the platform and the player.
OverlapHeight(pl, p) ==
    rect_intersection(PlatformRect(pl), PlayerRect(p)).h

\* The world after a vertical shift by dy: the platforms and the
\* background of the next state.
WorldShiftedY(dy) ==
    /\ game_objects' = [i \in 1..Len(game_objects) |->
                            PlatformMoveWorld(game_objects[i], 0, dy)]
    /\ background_offset' =
            [background_offset EXCEPT !.y = F32Add(@, Quarter(dy))]

\* C15: landing rule. In collision_up_down, for a single platform that
\* overlaps the player beyond the tolerance, whose bottom edge is not above
\* the player's bottom edge, with move_y < 0: the collision is applied
\* exactly when platform.top > player.bottom - COLLISION_TOLERANCE + move_y;
\* then move_y becomes 0, jumping false, the world is shifted by the height
\* of the overlap and the platform's top ends on the player's bottom;
\* otherwise platforms, background and player are unchanged.
C15_LandingRule ==
    [][calls' = calls + 1 =>
        LET pl == game_objects[1]
            p == player
        IN  (/\ Len(game_objects) = 1
             /\ Penetrates(pl, p)
             /\ Bottom(PlatformRect(pl)) >= Bottom(PlayerRect(p))
             /\ p.move_y < 0)
            => IF Top(PlatformRect(pl)) >
                    F32Add(F32Sub(Bottom(PlayerRect(p)), COLLISION_TOLERANCE),
                           p.move_y)
               THEN /\ player' = [p EXCEPT !.move_y = 0, !.jumping = FALSE]
                    /\ WorldShiftedY(OverlapHeight(pl, p))
                    /\ Top(PlatformRect(game_objects'[1])) = Bottom(PlayerRect(player'))
               ELSE UNCHANGED <<player, game_objects, background_offset>>]_vars

\* A landing has been applied to an overlap deeper than COLLISION_TOLERANCE
\* (which only the + move_y term lets through): the player stands on the
\* platform, not jumping, move_y 0.
C15_Witness ==
    /\ calls = 1
    /\ Len(game_objects) = 1
    /\ StandsOn(game_objects[1], player)
    /\ ~player.jumping
    /\ player.move_y = 0
    /\ F32Sub(background_offset.y, GameNew.background_offset.y)
            > Quarter(COLLISION_TOLERANCE)

\* The world pushed by a ceiling bump: the platform overlaps the player
\* beyond the tolerance, its bottom edge above the player's, and the world
\* moves up by the height of the overlap; of the player nothing changes but
\* move_y.
CeilingBump(new_move_y) ==
    LET pl == game_objects[1]
        p == player
    IN  (/\ Len(game_objects) = 1
         /\ Penetrates(pl, p)
         /\ Bottom(PlatformRect(pl)) < Bottom(PlayerRect(p)))
        => /\ player' = [p EXCEPT !.move_y = new_move_y]
           /\ WorldShiftedY(-OverlapHeight(pl, p))

\* C16 as stated: a ceiling bump zeroes move_y for every sign of move_y,
\* leaves jumping and the rest of the player unchanged, and pushes the
\* world by minus the height of the overlap.
C16_CeilingBumpAnySign ==
    [][calls' = calls + 1 => CeilingBump(0)]_vars

\* C16 amended: a ceiling bump zeroes move_y when it is positive and leaves
\* it unchanged when it is zero or negative; jumping and the rest of the
\* player are unchanged, and the world is pushed by minus the height of the
\* overlap whatever the sign of move_y.
C16_CeilingBump ==
    [][calls' = calls + 1 =>
        CeilingBump(IF player.move_y > 0 THEN 0 ELSE player.move_y)]_vars

\* A ceiling bump has been applied to a falling player with the jump flag
\* clear: the platform's bottom is on the player's top, the world has moved
\* up, move_y is still negative and the flag still clear.
C16_Witness ==
    /\ calls = 1
    /\ Len(game_objects) = 1
    /\ Bottom(PlatformRect(game_objects[1])) = Top(PlayerRect(player))
    /\ OverlapWidth(game_objects[1], player) >= RECT_TOLERANCE
    /\ background_offset.y < GameNew.background_offset.y
    /\ player.move_y < 0
    /\ ~player.jumping

----------------------------------------------------------------------------
(* collision_left_right on its own: the player with a horizontal speed and *)
(* two platforms placed around it; the function is applied once.           *)

\* move_x at the call: full speed, at rest, one acceleration step.
CollisionMoveX == {-MAX_SPEED, 0, ACCELERATION}

\* Platforms one tile high: beside the player on either side, over it by
\* less than the tolerance and by 2 units, aligned with it, and (three
\* tiles wide) across it; level with the player or lower by less than a
\* tile.
LeftRightPlatforms ==
    {Platform(F32Add(center_x, dx), F32Add(center_y, dy), ws, 1) :
        dx \in {-TILE_SIZE, F32Sub(Thin, TILE_SIZE), F32Sub(Two, TILE_SIZE), 0,
                F32Sub(TILE_SIZE, Two), F32Sub(TILE_SIZE, Thin), TILE_SIZE},
        dy \in {0, F32Sub(TILE_SIZE, Two), F32Sub(TILE_SIZE, Thin)},
        ws \in {1, 3}}

InitLeftRight ==
    /\ \E v \in CollisionMoveX : player = [GameNew.player EXCEPT !.move_x = v]
    /\ \E pl1 \in LeftRightPlatforms, pl2 \in LeftRightPlatforms :
           game_objects = <<pl1, pl2>>
    /\ background_offset = GameNew.background_offset
    /\ input_acceleration = [x |-> 0, y |-> 0]
    /\ key_events = 0
    /\ jumps = 0
    /\ calls = 0
    /\ start_counter = 0
    /\ events = << >>
    /\ rects = NoRects

CollideLeftRight ==
    /\ calls = 0
    /\ \E g \in {collision_left_right(Game)} :
           /\ player' = g.player
           /\ game_objects' = g.game_objects
           /\ background_offset' = g.background_offset
    /\ calls' = 1
    /\ UNCHANGED <<input_acceleration, key_events, jumps, start_counter,
                   events, rects>>

SpecLeftRight == InitLeftRight /\ [][CollideLeftRight]_vars

\* The platform is right of the player's left edge.
LeftEdgeCondition(pl, p) == Left(PlatformRect(pl)) > Left(PlayerRect(p))

\* The platform ends left of the player's right edge.
RightEdgeCondition(pl, p) == Right(PlatformRect(pl)) < Right(PlayerRect(p))

\* The platforms that overlap the player beyond the tolerance with an edge
\* condition met.
Deciding ==
    {i \in 1..Len(game_objects) :
        /\ Penetrates(game_objects[i], player)
        /\ \/ LeftEdgeCondition(game_objects[i], player)
           \/ RightEdgeCondition(game_objects[i], player)}

\* The last of a non-empty set of positions in list order.
LastOf(S) == CHOOSE i \in S : \A j \in S : j <= i

\* The world after a horizontal shift by dx: the platforms and the
\* background of the next state.
WorldShiftedX(dx) ==
    /\ game_objects' = [i \in 1..Len(game_objects) |->
                            PlatformMoveWorld(game_objects[i], dx, 0)]
    /\ background_offset' =
            [background_offset EXCEPT !.x = F32Add(@, Quarter(dx))]

\* C17: horizontal resolution. One call of collision_left_right leaves
\* platforms, background and player unchanged if no platform overlaps the
\* player beyond the tolerance with an edge condition met; otherwise it
\* shifts the world once, along X only, by +overlap.w if the left edge of
\* the last such platform in list order is right of the player's left
\* edge and by -overlap.w if instead its right edge is left of the player's
\* right edge, and sets move_x to 0.
C17_HorizontalResolution ==
    [][calls' = calls + 1 =>
        IF Deciding = {}
        THEN UNCHANGED <<player, game_objects, background_offset>>
        ELSE LET pl == game_objects[LastOf(Deciding)]
                 w == rect_intersection(PlatformRect(pl), PlayerRect(player)).w
             IN  /\ WorldShiftedX(IF LeftEdgeCondition(pl, player) THEN w ELSE -w)
                 /\ player' = [player EXCEPT !.move_x = 0]]_vars

\* Two platforms overlapped the player from opposite sides and the second
\* one, on the left, decided: the world moved left by its overlap, move_x
\* is 0, and the first platform, on the right, is deeper in the player than
\* before.
C17_Witness ==
    /\ calls = 1
    /\ Len(game_objects) = 2
    /\ player.move_x = 0
    /\ background_offset.x < GameNew.background_offset.x
    /\ Right(PlatformRect(game_objects[2])) = Left(PlayerRect(player))
    /\ Penetrates(game_objects[1], player)
    /\ LeftEdgeCondition(game_objects[1], player)

----------------------------------------------------------------------------
(* The event handlers under free interleaving: any key may go down or up   *)
(* and a frame may run, in any order; events logs what happened, each      *)
(* entry with the input vector the handler left.                           *)

Entry(kind, keycode, in) == [kind |-> kind, keycode |-> keycode, input |-> in]

Press(keycode) ==
    /\ Len(events) < MaxEvents
    /\ input_acceleration' = key_down(input_acceleration, keycode)
    /\ events' = Append(events, Entry("down", keycode, input_acceleration'))
    /\ UNCHANGED <<player, game_objects, background_offset, key_events, jumps,
                   calls, start_counter, rects>>

Release(keycode) ==
    /\ Len(events) < MaxEvents
    /\ input_acceleration' = key_up(input_acceleration, keycode)
    /\ events' = Append(events, Entry("up", keycode, input_acceleration'))
    /\ UNCHANGED <<player, game_objects, background_offset, key_events, jumps,
                   calls, start_counter, rects>>

Frame ==
    /\ Len(events) < MaxEvents
    /\ \E g \in {update(Game, input_acceleration)} :
           /\ player' = g.player
           /\ game_objects' = g.game_objects
           /\ background_offset' = g.background_offset
    /\ events' = Append(events, Entry("update", "None", input_acceleration))
    /\ UNCHANGED <<input_acceleration, key_events, jumps, calls, start_counter,
                   rects>>

NextKeys ==
    \/ \E keycode \in KeyCodes : Press(keycode)
    \/ \E keycode \in KeyCodes : Release(keycode)
    \/ Frame

SpecKeys == Init /\ [][NextKeys]_vars

\* The input vector before the i-th logged event.
InputBefore(i) == IF i = 1 THEN [x |-> 0, y |-> 0] ELSE events[i - 1].input

\* The positions of the key events in the log.
KeyEntries == {i \in 1..Len(events) : events[i].kind # "update"}

\* The input vector as the most recent key event left it.
LastKeyInput ==
    IF KeyEntries = {} THEN [x |-> 0, y |-> 0]
    ELSE events[LastOf(KeyEntries)].input

\* The positions n where a key goes up that went down at n - 1, with
\* nothing in between.
Taps ==
    {n \in 2..Len(events) :
        /\ events[n - 1].kind = "down"
        /\ events[n].kind = "up"
        /\ events[n].keycode = events[n - 1].keycode}

\* The component of the vector that the key writes (0 for other keys).
Axis(in, keycode) ==
    IF keycode \in {"Left", "Right"} THEN in.x
    ELSE IF keycode = "Up" THEN in.y
    ELSE 0

\* What every step does to the vector and the simulation: a key event
\* changes nothing but the vector, and not even that for a key other than
\* Left, Right, Up; a frame leaves the vector alone and is the update
\* computed from the vector the most recent key event left.
HandlersStep ==
    /\ Len(events') = Len(events) + 1
    /\ LET e == events'[Len(events')]
       IN  IF e.kind = "update"
           THEN /\ UNCHANGED input_acceleration
                /\ GameOf(player', game_objects', background_offset')
                      = update(Game, LastKeyInput)
           ELSE /\ UNCHANGED <<player, game_objects, background_offset>>
                /\ e.keycode \notin {"Left", "Right", "Up"}
                      => UNCHANGED input_acceleration

\* C12 as stated: under any interleaving of key events and frames the
\* vector has x in {-1, 0, 1} and y in {0, 1}; keys other than Left, Right,
\* Up leave it unchanged; key events change nothing else; each frame uses
\* the vector the most recent key event left; and a key pressed and
\* released with no frame in between leaves the vector as it was before
\* the press.
C12_TapLeavesNoTrace ==
    /\ [](/\ input_acceleration \in Inputs
          /\ \A n \in Taps : events[n].input = InputBefore(n - 1))
    /\ [][HandlersStep]_vars

\* C12 amended: as above, except that a key pressed and released with no
\* frame in between leaves the vector as the release alone would: as it
\* was before the press if the key's component was 0 then (or the key is
\* not Left, Right, Up), and with that component reset to 0 otherwise.
C12_InputVector ==
    /\ [](/\ input_acceleration \in Inputs
          /\ \A n \in Taps :
                /\ events[n].input = key_up(InputBefore(n - 1), events[n].keycode)
                /\ Axis(InputBefore(n - 1), events[n].keycode) = 0
                      => events[n].input = InputBefore(n - 1))
    /\ [][HandlersStep]_vars

\* A frame, Left pressed and released, and a second frame: the player has
\* not moved horizontally and the vector is 0 again.
C12_Witness ==
    /\ Len(events) = 4
    /\ events[1].kind = "update"
    /\ events[2] = Entry("down", "Left", [x |-> -One, y |-> 0])
    /\ events[3] = Entry("up", "Left", [x |-> 0, y |-> 0])
    /\ events[4].kind = "update"
    /\ player.move_x = 0
    /\ game_objects[1].x = GameNew.game_objects[1].x

\* The positions of the Left and Right key events in the log.
HorizontalEntries ==
    {i \in KeyEntries : events[i].keycode \in {"Left", "Right"}}

\* C20: input.x is decided by the last Left/Right event alone: -1 after
\* Left-down, +1 after Right-down, 0 after Left-up or Right-up (and 0 before
\* any such event), whichever keys are still held.
C20_LastHorizontalEvent ==
    input_acceleration.x =
        IF HorizontalEntries = {} THEN 0
        ELSE LET e == events[LastOf(HorizontalEntries)]
             IN  IF e.kind = "up" THEN 0
                 ELSE IF e.keycode = "Left" THEN -One
                 ELSE One

\* Right went down, then Left went down and up again: Right is still held
\* and input.x is 0.
C20_Witness ==
    /\ Len(events) = 3
    /\ events[1].kind = "down" /\ events[1].keycode = "Right"
    /\ events[2].kind = "down" /\ events[2].keycode = "Left"
    /\ events[3].kind = "up" /\ events[3].keycode = "Left"
    /\ input_acceleration.x = 0
====
